---- MODULE Spec2Model ----
(***************************************************************************)
(* Model of the LoRA merge tools of Local-Fine-Tuning-App:                 *)
(*   tools/merge_lora_to_gguf.py   read_gguf_header, load_lora_checkpoint, *)
(*                                 merge_lora_with_model, main             *)
(*   tools/merge_lora_advanced.py  load_gguf_model_info,                   *)
(*                                 extract_lora_tensors,                   *)
(*                                 apply_lora_to_model, save_merged_model, *)
(*                                 main                                    *)
(* Files are sequences of bytes (0..255).  Python exceptions are recorded  *)
(* by their class name in an error variable.                               *)
(***************************************************************************)
EXTENDS Integers, Sequences, FiniteSets, TLC

\* ------------------------------------------------------------------ bounds
\* Largest number of metadata key-value entries of a generated container.
MaxKV == 2
\* Largest number of bytes after the header part of a generated adapter.
MaxTail == 2

\* --------------------------------------------------------- program constants
\* Defaults of the checkpoint metadata (lora_r, lora_alpha).
DefaultRank == 8
DefaultAlpha == 16
\* f.read(1024): the part of the adapter searched for the JSON object start.
ChunkSize == 1024
\* Alignment of the container's data section (spec section 3).
Alignment == 32

None == <<"None">>

\* ----------------------------------------------------------- byte helpers
Min(a, b) == IF a < b THEN a ELSE b

\* f.read(n) at cursor pos (0-based): at most n bytes, fewer at end of file.
Read(bytes, pos, n) == SubSeq(bytes, pos + 1, Min(pos + n, Len(bytes)))

\* Values of 2^24 and more are all represented by Huge: it exceeds every file
\* length of the model, so reads and loop counts behave as for the exact value.
Huge == 256 * 256 * 256

\* struct.unpack of a little-endian unsigned integer (saturating at Huge).
RECURSIVE LittleEndian(_)
LittleEndian(bs) ==
  IF bs = <<>> THEN 0
  ELSE LET hi == LittleEndian(Tail(bs))
       IN  IF hi >= 256 * 256 THEN Huge ELSE Head(bs) + 256 * hi

\* struct.pack('<I', n) and struct.pack('<Q', n).
U32(n) == << n % 256, (n \div 256) % 256, (n \div 65536) % 256,
             (n \div 16777216) % 256 >>
U64(n) == U32(n) \o <<0, 0, 0, 0>>   \* n < 2^31 throughout

\* bytes.decode('utf-8', errors='ignore') on the bytes the model uses:
\* ASCII bytes decode to themselves, a lone byte >= 128 is dropped.
Utf8Ignore(bs) == SelectSeq(bs, LAMBDA b : b < 128)

Magic == <<71, 71, 85, 70>>   \* b'GGUF'

RECURSIVE Concat(_)
Concat(ss) == IF ss = <<>> THEN <<>> ELSE Head(ss) \o Concat(Tail(ss))

RECURSIVE Zeros(_)
Zeros(n) == IF n <= 0 THEN <<>> ELSE <<0>> \o Zeros(n - 1)

\* ------------------------------------------- container layout (spec sec. 6)
\* One metadata entry: length-prefixed name, 1-byte type tag, tag-typed value.
EncodeKV(e) == U32(Len(e.key)) \o e.key \o <<e.tag>> \o e.payload

\* Entries the generated containers draw from, one per type tag
\* 0=uint32, 1=int32, 2=float32, 3=bool, 4=string, 5=array, and one
\* unrecognized tag (9) with a two-byte payload.
EntryPool ==
  { [key |-> <<97>>,      tag |-> 0, payload |-> U32(7)],
    [key |-> <<98>>,      tag |-> 1, payload |-> U32(5)],
    [key |-> <<99>>,      tag |-> 2, payload |-> <<0, 0, 128, 63>>],
    [key |-> <<100>>,     tag |-> 3, payload |-> <<1>>],
    [key |-> <<101, 102>>, tag |-> 4, payload |-> U32(2) \o <<104, 105>>],
    [key |-> <<103>>,     tag |-> 5, payload |-> <<0>> \o U32(1) \o U32(3)],
    [key |-> <<104>>,     tag |-> 9, payload |-> <<1, 2>>] }

KVLists == UNION { [1..n -> EntryPool] : n \in 0..MaxKV }

\* One tensor descriptor: length-prefixed name, dim count, dims as uint64,
\* dtype tag, data offset relative to the data section.
EncodeDescriptor(t, off) ==
  U32(Len(t.name)) \o t.name \o U32(2) \o U64(t.rows) \o U64(t.cols)
    \o U32(t.dtype) \o U64(off)

Padded(n) == ((n + Alignment - 1) \div Alignment) * Alignment
Pad(bs) == bs \o Zeros(Padded(Len(bs)) - Len(bs))

\* Row-major element bytes of a tensor (dtype 0: one unsigned byte each).
TensorBytes(t) == Concat([i \in 1..t.rows |-> t.data[i]])

RECURSIVE DataOffsets(_, _)
DataOffsets(ts, off) ==
  IF ts = <<>> THEN <<>>
  ELSE <<off>> \o DataOffsets(Tail(ts), off + Padded(Len(TensorBytes(Head(ts)))))

\* The bytes before the data section: magic, version, tensor count, kv count,
\* the metadata entries and the tensor descriptors, padded to the alignment.
HeadBytes(version, kvs, ts) ==
  LET offs == DataOffsets(ts, 0)
  IN  Pad(Magic \o U32(version) \o U64(Len(ts)) \o U64(Len(kvs))
            \o Concat([i \in 1..Len(kvs) |-> EncodeKV(kvs[i])])
            \o Concat([i \in 1..Len(ts) |->
                         EncodeDescriptor(ts[i], offs[i])]))

\* The bytes of a container: the head, then the aligned data section.
EncodeContainer(version, kvs, ts) ==
  HeadBytes(version, kvs, ts)
    \o Concat([i \in 1..Len(ts) |-> Pad(TensorBytes(ts[i]))])

\* The elements of tensor i of a container built from kvs and ts, read from
\* the bytes of a file at the tensor's data offset.
TensorAt(bytes, kvs, ts, i) ==
  LET off == Len(HeadBytes(3, kvs, ts)) + DataOffsets(ts, 0)[i]
  IN  [r \in 1..ts[i].rows |->
         [c \in 1..ts[i].cols |-> bytes[off + (r - 1) * ts[i].cols + c]]]

\* Cursor position of the first byte of entry i+1 (i = 0..Len(kvs)): the
\* entry boundaries of the metadata table.
RECURSIVE EntryBoundary(_, _)
EntryBoundary(kvs, i) ==
  IF i = 0 THEN 24 ELSE EntryBoundary(kvs, i - 1) + Len(EncodeKV(kvs[i]))

\* ------------------------------------------- read_gguf_header (one entry)
\* One iteration of the metadata loop at cursor pos: the cursor after it,
\* the decoded key and value (None when the type is not decoded), or the
\* exception raised.
ReadKV(bytes, pos) ==
  LET klRaw == Read(bytes, pos, 4)
      keyLen == LittleEndian(klRaw)
      keyRaw == Read(bytes, pos + 4, keyLen)
      p1 == pos + 4 + Len(keyRaw)
      vtRaw == Read(bytes, p1, 1)
      p2 == p1 + 1
      valRaw == Read(bytes, p2, 4)
      strLen == LittleEndian(valRaw)
      strRaw == Read(bytes, p2 + 4, strLen)
      fail == [err |-> "struct.error", pos |-> pos, key |-> <<>>, value |-> None]
  IN  IF Len(klRaw) # 4 THEN fail
      ELSE IF Len(vtRaw) # 1 THEN fail
      ELSE IF vtRaw[1] = 0 THEN
             IF Len(valRaw) # 4 THEN fail
             ELSE [err |-> "none", pos |-> p2 + 4, key |-> Utf8Ignore(keyRaw),
                   value |-> <<"u32", LittleEndian(valRaw)>>]
      ELSE IF vtRaw[1] = 4 THEN
             IF Len(valRaw) # 4 THEN fail
             ELSE [err |-> "none", pos |-> p2 + 4 + Len(strRaw),
                   key |-> Utf8Ignore(keyRaw),
                   value |-> <<"str">> \o Utf8Ignore(strRaw)]
      ELSE [err |-> "none", pos |-> p2, key |-> Utf8Ignore(keyRaw),
            value |-> None]

\* metadata[key] = value, unless the value is None.
StoreKV(metadata, kv) ==
  IF kv.value = None THEN metadata
  ELSE [k \in DOMAIN metadata \cup {kv.key} |->
          IF k = kv.key THEN kv.value ELSE metadata[k]]

EmptyMap == [k \in {} |-> 0]

\* ------------------------------------------------------- json.loads (tokens)
\* An adapter file is a sequence of lexical units, each standing for its bytes:
\*   "{"  "}"  ","            the JSON punctuation bytes
\*   "r:" "a:" "t:"           the keys "lora_r": "lora_alpha": "target_modules":
\*   "0" "4" "8"              number literals
\*   "z"                      an ASCII byte that is no JSON token
\*   "xff"                    the byte 0xFF (not valid UTF-8)
JsonKeys == {"r:", "a:", "t:"}
JsonNums == {"0", "4", "8"}
NumVal(tok) == IF tok = "0" THEN 0 ELSE IF tok = "4" THEN 4 ELSE 8
KeyName(tok) ==
  IF tok = "r:" THEN "lora_r" ELSE IF tok = "a:" THEN "lora_alpha"
  ELSE "target_modules"

\* .decode('utf-8', errors='ignore') of an adapter slice: 0xFF is dropped.
DecodeIgnore(toks) == SelectSeq(toks, LAMBDA t : t # "xff")

\* bytes.find(b): 0-based index of the first occurrence, -1 when there is none.
Find(toks, b) ==
  IF \E i \in 1..Len(toks) : toks[i] = b
    THEN (CHOOSE i \in 1..Len(toks) :
            toks[i] = b /\ \A j \in 1..(i - 1) : toks[j] # b) - 1
    ELSE -1

JNum(n) == [kind |-> "num", num |-> n]
JObj == [kind |-> "obj", num |-> 0]
JFail == [ok |-> FALSE, next |-> 0, val |-> JObj, map |-> EmptyMap]

\* The JSON scanner: a value at position i is a number or an object; an
\* object is "{" "}" or "{" key value ("," key value)* "}".  A later
\* duplicate key replaces the earlier one.
RECURSIVE ParseValue(_, _), ParseMembers(_, _, _)
ParseValue(toks, i) ==
  IF i > Len(toks) THEN JFail
  ELSE IF toks[i] \in JsonNums
    THEN [ok |-> TRUE, next |-> i + 1, val |-> JNum(NumVal(toks[i])),
          map |-> EmptyMap]
  ELSE IF toks[i] = "{"
    THEN IF i + 1 <= Len(toks) /\ toks[i + 1] = "}"
           THEN [ok |-> TRUE, next |-> i + 2, val |-> JObj, map |-> EmptyMap]
           ELSE ParseMembers(toks, i + 1, EmptyMap)
  ELSE JFail

ParseMembers(toks, i, acc) ==
  IF i > Len(toks) \/ toks[i] \notin JsonKeys THEN JFail
  ELSE LET v == ParseValue(toks, i + 1)
           k == KeyName(toks[i])
           acc2 == [x \in DOMAIN acc \cup {k} |->
                      IF x = k THEN v.val ELSE acc[x]]
       IN  IF ~v.ok \/ v.next > Len(toks) THEN JFail
           ELSE IF toks[v.next] = ","
             THEN ParseMembers(toks, v.next + 1, acc2)
           ELSE IF toks[v.next] = "}"
             THEN [ok |-> TRUE, next |-> v.next + 1, val |-> JObj,
                   map |-> acc2]
           ELSE JFail

\* json.loads(s): the dict parsed from the whole of s, or JSONDecodeError
\* (empty input, a syntax error, or extra data after the value).
JsonLoads(toks) ==
  LET r == ParseValue(toks, 1)
  IN  IF r.ok /\ r.next = Len(toks) + 1 /\ toks[1] = "{"
        THEN [ok |-> TRUE, metadata |-> r.map]
        ELSE [ok |-> FALSE, metadata |-> EmptyMap]

\* ---------------------------------------------------- load_lora_checkpoint
DefaultMetadata ==
  [k \in {"lora_r", "lora_alpha"} |->
     IF k = "lora_r" THEN JNum(DefaultRank) ELSE JNum(DefaultAlpha)]

\* json_end = remaining.find(b'}') + 1
JsonEnd(remaining) == Find(remaining, "}") + 1

\* The dict load_lora_checkpoint returns for a file that exists.
load_lora_checkpoint(file) ==
  LET chunk == Read(file, 0, ChunkSize)
      json_start == Find(chunk, "{")
      remaining == SubSeq(file, json_start + 1, Len(file))
      json_end == JsonEnd(remaining)
      json_str == DecodeIgnore(SubSeq(remaining, 1, json_end))
      parsed == JsonLoads(json_str)
  IN  IF json_start >= 0 /\ parsed.ok
        THEN [metadata |-> parsed.metadata,
              tensors |-> SubSeq(remaining, json_end + 1, Len(remaining))]
        ELSE [metadata |-> DefaultMetadata, tensors |-> file]

\* ----------------------------------------------- checkpoint tensors (advanced)
\* A tensor name is a sequence of name parts, each standing for its text:
\* <<"lora_A", "/", "l0">> is "lora_A/l0".
PartOrder(p) ==
  CASE p = "/" -> 1 [] p = "bias" -> 2 [] p = "l0" -> 3 [] p = "l1" -> 4
    [] p = "lora_A" -> 5 [] p = "lora_B" -> 6 [] OTHER -> 7

\* Python's string order on names.
RECURSIVE NameLess(_, _)
NameLess(a, b) ==
  IF a = <<>> THEN b # <<>>
  ELSE IF b = <<>> THEN FALSE
  ELSE IF Head(a) = Head(b) THEN NameLess(Tail(a), Tail(b))
  ELSE PartOrder(Head(a)) < PartOrder(Head(b))

\* sorted(tensors.keys())
RECURSIVE SortedNames(_)
SortedNames(S) ==
  IF S = {} THEN <<>>
  ELSE LET m == CHOOSE x \in S : \A y \in S \ {x} : NameLess(x, y)
       IN  <<m>> \o SortedNames(S \ {m})

\* "lora_A" in tensor_name
HasLoraA(name) == \E i \in 1..Len(name) : name[i] = "lora_A"

\* tensor_name.replace("lora_A", "lora_B")
BName(name) ==
  [i \in 1..Len(name) |-> IF name[i] = "lora_A" THEN "lora_B" ELSE name[i]]

\* tensor_name.split("/")[-1]
RECURSIVE LastPart(_)
LastPart(name) ==
  IF \E i \in 1..Len(name) : name[i] = "/"
    THEN LastPart(Tail(name))
    ELSE name

\* shape of a tensor value
Shape(t) == <<t.rows, t.cols>>

\* a_mat @ b_mat for 2-D arrays; numpy raises ValueError unless the inner
\* dimensions agree.
MatMulOk(a, b) == a.cols = b.rows

RECURSIVE SumTo(_, _)
SumTo(f, n) == IF n = 0 THEN 0 ELSE f[n] + SumTo(f, n - 1)

MatMul(a, b) ==
  [i \in 1..a.rows |->
     [j \in 1..b.cols |->
        SumTo([k \in 1..a.cols |-> a.data[i][k] * b.data[k][j]], a.cols)]]

\* (a_mat @ b_mat) * scale, with scale = alpha / rank kept as the pair
\* <<alpha, rank>>: the entries are numerators over the denominator rank.
DeltaNum(a, b, scale) ==
  LET ab == MatMul(a, b)
  IN  [i \in 1..a.rows |-> [j \in 1..b.cols |-> ab[i][j] * scale[1]]]

\* np.linalg.norm(delta), kept as its square <<numerator, denominator>>.
NormSq(a, b, scale) ==
  LET d == DeltaNum(a, b, scale)
      rowSq == [i \in 1..a.rows |->
                  SumTo([j \in 1..b.cols |-> d[i][j] * d[i][j]], b.cols)]
  IN  <<SumTo(rowSq, a.rows), scale[2] * scale[2]>>

\* One iteration of the loop of apply_lora_to_model over tensor_name: the
\* operation appended, the warning printed, or nothing.
ApplyOne(tensors, tensor_name, scale) ==
  LET b_name == BName(tensor_name)
      a_mat == tensors[tensor_name]
      b_mat == tensors[b_name]
  IN  IF ~HasLoraA(tensor_name) \/ b_name \notin DOMAIN tensors
        THEN [op |-> <<>>, warn |-> <<>>]
      ELSE IF ~(a_mat.nd /\ b_mat.nd)
        THEN [op |-> <<>>, warn |-> <<>>]
      ELSE IF MatMulOk(a_mat, b_mat)
        THEN [op |-> << [layer |-> LastPart(tensor_name),
                         a_shape |-> Shape(a_mat),
                         b_shape |-> Shape(b_mat),
                         delta_norm |-> NormSq(a_mat, b_mat, scale)] >>,
              warn |-> <<>>]
      ELSE [op |-> <<>>, warn |-> <<tensor_name>>]

\* ------------------------------------------- read_gguf_header (whole call)
RECURSIVE ReadEntries(_, _, _, _)
ReadEntries(bytes, pos, n, metadata) ==
  IF n = 0 THEN [err |-> "none", pos |-> pos, metadata |-> metadata]
  ELSE LET kv == ReadKV(bytes, pos)
       IN  IF kv.err # "none"
             THEN [err |-> kv.err, pos |-> pos, metadata |-> metadata]
             ELSE ReadEntries(bytes, kv.pos, n - 1, StoreKV(metadata, kv))

\* The result of read_gguf_header on a file with this content: err is "none"
\* when it returns the header dict.
read_gguf_header(bytes) ==
  LET fixed == Read(bytes, 4, 20)
      kv_count == LittleEndian(Read(bytes, 16, 8))
  IN  IF Read(bytes, 0, 4) # Magic
        THEN [err |-> "ValueError", pos |-> 0, metadata |-> EmptyMap]
      ELSE IF Len(fixed) # 20
        THEN [err |-> "struct.error", pos |-> 4, metadata |-> EmptyMap]
      ELSE ReadEntries(bytes, 24, kv_count, EmptyMap)

\* --------------------------------------------------------------- the inputs
File(data) == [exists |-> TRUE, data |-> data]
NoFile == [exists |-> FALSE, data |-> <<>>]

\* dict.get(key, default)
Get(d, k, default) == IF k \in DOMAIN d THEN d[k] ELSE default

Tensor(name, rows, cols, data) ==
  [name |-> name, rows |-> rows, cols |-> cols, dtype |-> 0, data |-> data]

\* Names of the base tensors, as the bytes of "l0" and "l1".
NameBytes(layer) == IF layer = <<"l0">> THEN <<108, 48>> ELSE <<108, 49>>

\* The base models: no file, a file that is no container, a container whose
\* only tensor l0 is all zeros, and a container with tensors l0 and l1.
BaseKVs ==
  << [key |-> <<97>>, tag |-> 0, payload |-> U32(7)],
     [key |-> <<101, 102>>, tag |-> 4, payload |-> U32(2) \o <<104, 105>>] >>

BaseTensorLists ==
  { << Tensor(NameBytes(<<"l0">>), 2, 2, << <<0, 0>>, <<0, 0>> >>) >>,
    << Tensor(NameBytes(<<"l0">>), 2, 2, << <<1, 2>>, <<3, 4>> >>),
       Tensor(NameBytes(<<"l1">>), 2, 2, << <<5, 6>>, <<7, 8>> >>) >> }

\* A file whose first byte is not 'G'.
NotAContainer == <<88>> \o Tail(EncodeContainer(3, BaseKVs, <<>>))

\* Checkpoint tensor values: ndarrays (nd) and, from a JSON checkpoint, lists.
Array(rows, cols, data) ==
  [nd |-> TRUE, rows |-> rows, cols |-> cols, data |-> data]
MA == Array(2, 1, << <<1>>, <<2>> >>)
MB == Array(1, 2, << <<1, 3>> >>)
MZ == Array(1, 2, << <<0, 0>> >>)
MI == Array(2, 2, << <<1, 0>>, <<0, 1>> >>)
ML == [nd |-> FALSE, rows |-> 2, cols |-> 1, data |-> << <<1>>, <<2>> >>]

A0 == <<"lora_A", "/", "l0">>
B0 == <<"lora_B", "/", "l0">>
A1 == <<"lora_A", "/", "l1">>
B1 == <<"lora_B", "/", "l1">>

\* The tensor dicts of the checkpoints: each name absent or bound to one of
\* the values listed for it.
TensorChoices(n) ==
  IF n = A0 THEN {MA, MI, ML}
  ELSE IF n = B0 THEN {MB, MZ}
  ELSE IF n = A1 THEN {MA}
  ELSE {MB}

TensorDicts ==
  UNION { { f \in [S -> {MA, MB, MZ, MI, ML}] :
              \A n \in S : f[n] \in TensorChoices(n) } :
          S \in SUBSET {A0, B0, A1, B1} }

CheckpointMetas ==
  { EmptyMap,
    [k \in {"lora_r", "lora_alpha"} |-> IF k = "lora_r" THEN 2 ELSE 1],
    [k \in {"lora_r", "lora_alpha"} |-> IF k = "lora_r" THEN 0 ELSE 2] }

\* What pickle.load / json.load yields for the adapter of the advanced tool:
\* nothing loadable, or a checkpoint dict.
Unloadable == [loadable |-> FALSE, meta |-> EmptyMap, tensors |-> EmptyMap]
Checkpoints ==
  { [loadable |-> TRUE, meta |-> m, tensors |-> t] :
      m \in CheckpointMetas, t \in TensorDicts }

\* The adapters of the simple tool: an optional leading byte, a header (or
\* none), and trailing tensor bytes.
HeaderPool ==
  { <<>>,
    <<"{", "}">>,
    <<"{", "r:", "4", "}">>,
    <<"{", "r:", "4", ",", "a:", "8", "}">>,
    <<"{", "r:", "0", "}">>,
    <<"{", "xff", "}">>,
    <<"{", "z", "}">>,
    <<"{", "r:", "4">>,
    <<"{", "t:", "{", "}", "}">>,
    <<"{", "r:", "4", ",", "t:", "{", "a:", "8", "}", "}">> }

Tails == UNION { [1..n -> {"z", "{", "}"}] : n \in 0..MaxTail }

AdapterBytes ==
  { pre \o h \o t : pre \in { <<>>, <<"z">> }, h \in HeaderPool, t \in Tails }

\* ------------------------------------------------------------- merge runs
VARIABLES
  tool,          \* "simple": merge_lora_to_gguf.py; "advanced": merge_lora_advanced.py
  pc,            \* position of main
  error,         \* exception that ended the run, or "none"
  modelFile,     \* --model
  baseTensors,   \* the tensors the base container was built from
  adapterFile,   \* --adapter
  outFile,       \* --out
  reportFile,    \* --out with suffix .merge.json
  adapter_data,  \* simple: the dict load_lora_checkpoint returned
  checkpoint,    \* advanced: the dict extract_lora_tensors returned
  scale,         \* lora_alpha / lora_r as <<lora_alpha, lora_r>>
  model_info,    \* advanced: size recorded by load_gguf_model_info, or -1
  merge_stats,   \* advanced: the dict apply_lora_to_model builds
  idx,           \* advanced: names of sorted(tensors.keys()) already visited
  warnings       \* names printed in "Warning: Could not merge ..." lines

vars_m == <<tool, pc, error, modelFile, baseTensors, adapterFile, outFile,
            reportFile, adapter_data, checkpoint, scale, model_info,
            merge_stats, idx, warnings>>

\* ---------------------------------------------- read_gguf_header, stepwise
VARIABLES
  h_kvs,        \* the entries the container under h_bytes was built from
  h_bytes,      \* content of the file read_gguf_header is called on
  h_pc,         \* "magic", "fixed", "loop", "returned", "raised"
  h_pos,        \* the file cursor f.tell()
  h_fixed,      \* version, model_size, kv_count once read
  h_i,          \* iterations of the metadata loop completed
  h_metadata,   \* the metadata dict
  h_err         \* exception raised, or "none"

vars_h == <<h_kvs, h_bytes, h_pc, h_pos, h_fixed, h_i, h_metadata, h_err>>

vars == <<vars_h, vars_m>>

NoFixed == [version |-> 0, size |-> 0, kv_count |-> 0]

\* The files read_gguf_header is called on: the container built from kvs, that
\* container with a wrong first byte, and every byte source that ends early
\* (each proper prefix of the container).
HeaderFiles(kvs) ==
  LET whole == EncodeContainer(3, kvs, <<>>)
  IN  { whole, <<88>> \o Tail(whole) }
        \cup { SubSeq(whole, 1, n) : n \in 0..(Len(whole) - 1) }

HeaderInit ==
  /\ h_kvs \in KVLists
  /\ h_bytes \in HeaderFiles(h_kvs)
  /\ h_pc = "magic"
  /\ h_pos = 0
  /\ h_fixed = NoFixed
  /\ h_i = 0
  /\ h_metadata = EmptyMap
  /\ h_err = "none"

HeaderIdle ==
  /\ h_kvs = <<>>
  /\ h_bytes = <<>>
  /\ h_pc = "idle"
  /\ h_pos = 0
  /\ h_fixed = NoFixed
  /\ h_i = 0
  /\ h_metadata = EmptyMap
  /\ h_err = "none"

\* magic = f.read(4); if magic != b'GGUF': raise ValueError
ReadMagic ==
  /\ h_pc = "magic"
  /\ IF Read(h_bytes, 0, 4) = Magic
       THEN /\ h_pc' = "fixed"
            /\ h_pos' = Len(Read(h_bytes, 0, 4))
            /\ h_err' = "none"
       ELSE /\ h_pc' = "raised"
            /\ h_pos' = Len(Read(h_bytes, 0, 4))
            /\ h_err' = "ValueError"
  /\ UNCHANGED <<h_kvs, h_bytes, h_fixed, h_i, h_metadata>>
  /\ UNCHANGED vars_m

\* version (<I), model_size (<Q), kv_count (<Q)
ReadFixed ==
  /\ h_pc = "fixed"
  /\ LET v == Read(h_bytes, h_pos, 4)
         s == Read(h_bytes, h_pos + 4, 8)
         k == Read(h_bytes, h_pos + 12, 8)
     IN  IF Len(v) = 4 /\ Len(s) = 8 /\ Len(k) = 8
           THEN /\ h_fixed' = [version |-> LittleEndian(v),
                               size |-> LittleEndian(s),
                               kv_count |-> LittleEndian(k)]
                /\ h_pos' = h_pos + 20
                /\ h_pc' = "loop"
                /\ h_err' = "none"
           ELSE /\ h_fixed' = h_fixed
                /\ h_pos' = h_pos + Len(v) + Len(s) + Len(k)
                /\ h_pc' = "raised"
                /\ h_err' = "struct.error"
  /\ UNCHANGED <<h_kvs, h_bytes, h_i, h_metadata>>
  /\ UNCHANGED vars_m

\* one iteration of: for _ in range(kv_count)
ReadEntry ==
  /\ h_pc = "loop"
  /\ h_i < h_fixed.kv_count
  /\ LET kv == ReadKV(h_bytes, h_pos)
     IN  IF kv.err = "none"
           THEN /\ h_metadata' = StoreKV(h_metadata, kv)
                /\ h_pos' = kv.pos
                /\ h_i' = h_i + 1
                /\ h_pc' = "loop"
                /\ h_err' = "none"
           ELSE /\ h_metadata' = h_metadata
                /\ h_pos' = h_pos
                /\ h_i' = h_i
                /\ h_pc' = "raised"
                /\ h_err' = kv.err
  /\ UNCHANGED <<h_kvs, h_bytes, h_fixed>>
  /\ UNCHANGED vars_m

\* return {"version": ..., "size": ..., "metadata": metadata}
ReturnHeader ==
  /\ h_pc = "loop"
  /\ h_i >= h_fixed.kv_count
  /\ h_pc' = "returned"
  /\ UNCHANGED <<h_kvs, h_bytes, h_pos, h_fixed, h_i, h_metadata, h_err>>
  /\ UNCHANGED vars_m


HeaderNext == ReadMagic \/ ReadFixed \/ ReadEntry \/ ReturnHeader

\* ------------------------------------------------------ merge runs: state
NoAdapterData == [metadata |-> EmptyMap, tensors |-> <<>>]
NoStats == [layers_updated |-> 0, tensors_processed |-> 0, operations |-> <<>>]
NoScale == <<0, 0>>

MergeRest ==
  /\ pc = "start"
  /\ error = "none"
  /\ outFile = NoFile
  /\ reportFile = NoFile
  /\ adapter_data = NoAdapterData
  /\ checkpoint = Unloadable
  /\ scale = NoScale
  /\ model_info = -1
  /\ merge_stats = NoStats
  /\ idx = 0
  /\ warnings = <<>>

BaseInit ==
  \/ /\ modelFile = NoFile
     /\ baseTensors = <<>>
  \/ /\ modelFile = File(NotAContainer)
     /\ baseTensors = <<>>
  \/ /\ baseTensors \in BaseTensorLists
     /\ modelFile = File(EncodeContainer(3, BaseKVs, baseTensors))

MergeInit ==
  /\ tool \in {"simple", "advanced"}
  /\ BaseInit
  /\ IF tool = "simple"
       THEN adapterFile \in {NoFile} \cup { File(b) : b \in AdapterBytes }
       ELSE adapterFile \in {NoFile, File(Unloadable)}
                              \cup { File(c) : c \in Checkpoints }
  /\ MergeRest

MergeIdle ==
  /\ tool = "none"
  /\ modelFile = NoFile
  /\ baseTensors = <<>>
  /\ adapterFile = NoFile
  /\ MergeRest

Raise(e) ==
  /\ pc' = "failed"
  /\ error' = e

\* A read that starts after the four magic bytes.
FileReadAfterMagic(content) == SubSeq(content, 5, Len(content))

\* src.read(): the whole content of the file.
FileRead(content) == content

\* with open(output_path, 'wb') as dst: dst.write(data)
\* k = -1: the destination cannot be created; 0 <= k < Len(data): the write
\* fails after k bytes and the file is closed as it is; k = Len(data): success.
WriteFile(data, k, next) ==
  IF k = -1
    THEN /\ outFile' = outFile
         /\ Raise("IOError")
    ELSE IF k < Len(data)
      THEN /\ outFile' = File(SubSeq(data, 1, k))
           /\ Raise("IOError")
      ELSE /\ outFile' = File(data)
           /\ pc' = next
           /\ error' = error

\* ---------------------------------------------- merge_lora_to_gguf.py main
\* adapter_data = load_lora_checkpoint(args.adapter)
LoadCheckpoint ==
  /\ tool = "simple" /\ pc = "start"
  /\ IF adapterFile.exists
       THEN /\ adapter_data' = load_lora_checkpoint(adapterFile.data)
            /\ pc' = "merge"
            /\ error' = error
       ELSE /\ adapter_data' = adapter_data
            /\ Raise("FileNotFoundError")
  /\ UNCHANGED <<tool, modelFile, baseTensors, adapterFile, outFile,
                 reportFile, checkpoint, scale, model_info, merge_stats, idx,
                 warnings>>
  /\ UNCHANGED vars_h

\* merge_lora_with_model up to the copy: the existence check and the prints
\* (lora_alpha / lora_r is evaluated for the "Scale" line).
MergeBegin ==
  /\ tool = "simple" /\ pc = "merge"
  /\ LET lora_r == Get(adapter_data.metadata, "lora_r", JNum(DefaultRank))
         lora_alpha == Get(adapter_data.metadata, "lora_alpha",
                           JNum(DefaultAlpha))
     IN  IF ~modelFile.exists
           THEN /\ Raise("FileNotFoundError")
                /\ scale' = scale
         ELSE IF lora_r.kind # "num" \/ lora_alpha.kind # "num"
           THEN /\ Raise("TypeError")
                /\ scale' = scale
         ELSE IF lora_r.num = 0
           THEN /\ Raise("ZeroDivisionError")
                /\ scale' = scale
         ELSE /\ scale' = <<lora_alpha.num, lora_r.num>>
              /\ pc' = "write"
              /\ error' = error
  /\ UNCHANGED <<tool, modelFile, baseTensors, adapterFile, outFile,
                 reportFile, adapter_data, checkpoint, model_info,
                 merge_stats, idx, warnings>>
  /\ UNCHANGED vars_h

\* src_data = src.read(); dst.write(src_data)
CopyBase ==
  /\ tool = "simple" /\ pc = "write"
  /\ LET src_data == FileRead(modelFile.data)
     IN  \E k \in -1..Len(src_data) : WriteFile(src_data, k, "log")
  /\ UNCHANGED <<tool, modelFile, baseTensors, adapterFile, reportFile,
                 adapter_data, checkpoint, scale, model_info, merge_stats,
                 idx, warnings>>
  /\ UNCHANGED vars_h

\* json.dump(merge_info, f) into <out>.merge.json
WriteMergeLog ==
  /\ tool = "simple" /\ pc = "log"
  /\ reportFile' = File([lora_rank |-> scale[2], lora_alpha |-> scale[1],
                         scale |-> scale])
  /\ pc' = "done"
  /\ UNCHANGED <<tool, error, modelFile, baseTensors, adapterFile, outFile,
                 adapter_data, checkpoint, scale, model_info, merge_stats,
                 idx, warnings>>
  /\ UNCHANGED vars_h

\* ---------------------------------------------- merge_lora_advanced.py main
\* model_info = load_gguf_model_info(args.model)
LoadModelInfo ==
  /\ tool = "advanced" /\ pc = "start"
  /\ IF modelFile.exists
       THEN /\ model_info' = Len(modelFile.data)
            /\ pc' = "extract"
            /\ error' = error
       ELSE /\ model_info' = model_info
            /\ Raise("FileNotFoundError")
  /\ UNCHANGED <<tool, modelFile, baseTensors, adapterFile, outFile,
                 reportFile, adapter_data, checkpoint, scale, merge_stats,
                 idx, warnings>>
  /\ UNCHANGED vars_h

\* lora_checkpoint, scale = extract_lora_tensors(args.adapter)
ExtractLoraTensors ==
  /\ tool = "advanced" /\ pc = "extract"
  /\ LET lora_r == Get(adapterFile.data.meta, "lora_r", DefaultRank)
         lora_alpha == Get(adapterFile.data.meta, "lora_alpha", DefaultAlpha)
     IN  IF ~adapterFile.exists
           THEN /\ Raise("FileNotFoundError")
                /\ UNCHANGED <<checkpoint, scale>>
         ELSE IF ~adapterFile.data.loadable
           THEN /\ Raise("RuntimeError")
                /\ UNCHANGED <<checkpoint, scale>>
         ELSE IF lora_r = 0
           THEN /\ Raise("ZeroDivisionError")
                /\ UNCHANGED <<checkpoint, scale>>
         ELSE /\ checkpoint' = adapterFile.data
              /\ scale' = <<lora_alpha, lora_r>>
              /\ pc' = "apply"
              /\ error' = error
  /\ UNCHANGED <<tool, modelFile, baseTensors, adapterFile, outFile,
                 reportFile, adapter_data, model_info, merge_stats, idx,
                 warnings>>
  /\ UNCHANGED vars_h

\* apply_lora_to_model: merge_stats = {...} before the loop
ApplyBegin ==
  /\ tool = "advanced" /\ pc = "apply"
  /\ merge_stats' = [layers_updated |-> 0,
                     tensors_processed |-> Cardinality(DOMAIN checkpoint.tensors),
                     operations |-> <<>>]
  /\ idx' = 0
  /\ pc' = "loop"
  /\ UNCHANGED <<tool, error, modelFile, baseTensors, adapterFile, outFile,
                 reportFile, adapter_data, checkpoint, scale, model_info,
                 warnings>>
  /\ UNCHANGED vars_h

\* apply_lora_to_model: one iteration of for tensor_name in sorted(...)
ApplyStep ==
  /\ tool = "advanced" /\ pc = "loop"
  /\ idx < Cardinality(DOMAIN checkpoint.tensors)
  /\ LET tensor_name == SortedNames(DOMAIN checkpoint.tensors)[idx + 1]
         r == ApplyOne(checkpoint.tensors, tensor_name, scale)
     IN  /\ merge_stats' =
              [merge_stats EXCEPT
                 !.operations = @ \o r.op,
                 !.layers_updated = @ + Len(r.op)]
         /\ warnings' = warnings \o r.warn
  /\ idx' = idx + 1
  /\ UNCHANGED <<tool, pc, error, modelFile, baseTensors, adapterFile,
                 outFile, reportFile, adapter_data, checkpoint, scale,
                 model_info>>
  /\ UNCHANGED vars_h

\* apply_lora_to_model: return merge_stats
ApplyReturn ==
  /\ tool = "advanced" /\ pc = "loop"
  /\ idx >= Cardinality(DOMAIN checkpoint.tensors)
  /\ pc' = "save"
  /\ UNCHANGED <<tool, error, modelFile, baseTensors, adapterFile, outFile,
                 reportFile, adapter_data, checkpoint, scale, model_info,
                 merge_stats, idx, warnings>>
  /\ UNCHANGED vars_h

\* save_merged_model: data = src.read(); dst.write(data)
SaveCopy ==
  /\ tool = "advanced" /\ pc = "save"
  /\ LET data == FileRead(modelFile.data)
     IN  \E k \in -1..Len(data) : WriteFile(data, k, "meta")
  /\ UNCHANGED <<tool, modelFile, baseTensors, adapterFile, reportFile,
                 adapter_data, checkpoint, scale, model_info, merge_stats,
                 idx, warnings>>
  /\ UNCHANGED vars_h

\* save_merged_model: json.dump(merge_meta, f) into <out>.merge.json
SaveMeta ==
  /\ tool = "advanced" /\ pc = "meta"
  /\ reportFile' =
       File([operations |-> SubSeq(merge_stats.operations, 1,
                                   Min(5, Len(merge_stats.operations))),
             total_ops |-> Len(merge_stats.operations)])
  /\ pc' = "done"
  /\ UNCHANGED <<tool, error, modelFile, baseTensors, adapterFile, outFile,
                 adapter_data, checkpoint, scale, model_info, merge_stats,
                 idx, warnings>>
  /\ UNCHANGED vars_h

Next ==
  \/ LoadCheckpoint \/ MergeBegin \/ CopyBase \/ WriteMergeLog
  \/ LoadModelInfo \/ ExtractLoraTensors \/ ApplyBegin \/ ApplyStep
  \/ ApplyReturn \/ SaveCopy \/ SaveMeta

Init == MergeInit /\ HeaderIdle

\* The two merge tools, each run once on every input.
Spec == Init /\ [][Next]_vars

\* read_gguf_header called on every generated container.
InitHeader == HeaderInit /\ MergeIdle

SpecHeader == InitHeader /\ [][HeaderNext]_vars

\* ------------------------------------------------------------------ claims
Terminal == pc \in {"done", "failed"}

\* The checkpoint holds both lora_A/<layer> (named n) and lora_B/<layer>.
Paired(n) ==
  /\ n \in DOMAIN checkpoint.tensors
  /\ HasLoraA(n)
  /\ BName(n) \in DOMAIN checkpoint.tensors

\* The checkpoint holds lora_A/<layer> (named n) and no lora_B/<layer>.
Unpaired(n) ==
  /\ n \in DOMAIN checkpoint.tensors
  /\ HasLoraA(n)
  /\ BName(n) \notin DOMAIN checkpoint.tensors

\* Both tensors of the pair are arrays whose product is defined.
Mergeable(n) ==
  /\ checkpoint.tensors[n].nd
  /\ checkpoint.tensors[BName(n)].nd
  /\ MatMulOk(checkpoint.tensors[n], checkpoint.tensors[BName(n)])

\* The base container has a tensor named as the layer of n, at index i.
TargetIs(n, i) ==
  /\ i \in 1..Len(baseTensors)
  /\ baseTensors[i].name = NameBytes(LastPart(n))

\* The merge report has an entry for the layer.
Reported(layer) ==
  \E i \in 1..Len(merge_stats.operations) :
    merge_stats.operations[i].layer = layer

\* C1: after a merge run, the output tensor of every layer with a paired A
\* and B equals the base tensor plus (alpha / rank) * (A @ B), elementwise
\* (so it equals the scaled product when the base tensor is all zeros).
\* Stated with both sides multiplied by rank.
C1_MergedTensorIsBasePlusDelta ==
  (tool = "advanced" /\ pc = "done") =>
    \A n \in DOMAIN checkpoint.tensors : \A i \in 1..Len(baseTensors) :
      (Paired(n) /\ Mergeable(n) /\ TargetIs(n, i)) =>
        LET ab == MatMul(checkpoint.tensors[n], checkpoint.tensors[BName(n)])
            out == TensorAt(outFile.data, BaseKVs, baseTensors, i)
            base == TensorAt(modelFile.data, BaseKVs, baseTensors, i)
        IN  \A r \in 1..baseTensors[i].rows : \A c \in 1..baseTensors[i].cols :
              scale[2] * out[r][c] = scale[2] * base[r][c] + scale[1] * ab[r][c]

\* The run computed no replacement for any tensor: the simple tool computes
\* none at all, the advanced tool none when the checkpoint has no pair.
NoReplacement ==
  \/ tool = "simple"
  \/ /\ tool = "advanced"
     /\ \A n \in DOMAIN checkpoint.tensors : ~Paired(n)

\* C2: a completed run that replaces no tensor leaves a destination whose
\* bytes are those of the input container.
C2_RoundTripByteIdentical ==
  (pc = "done" /\ NoReplacement) =>
    (outFile.exists /\ outFile.data = modelFile.data)

\* A completed advanced run on a container with tensors, whose checkpoint
\* has tensors but no pair.
C2_Witness ==
  /\ tool = "advanced" /\ pc = "done"
  /\ NoReplacement
  /\ Unpaired(A0)
  /\ Len(baseTensors) = 2
  /\ outFile.exists

\* C3: a run whose checkpoint has a pair with A.cols # B.rows ends with
\* ShapeMismatchError and without an output file (runs ended by an I/O
\* failure aside).
C3_ShapeMismatchFails ==
  ( /\ tool = "advanced" /\ Terminal /\ error # "IOError"
    /\ checkpoint.loadable
    /\ baseTensors # <<>>
    /\ \E n \in DOMAIN checkpoint.tensors :
         /\ Paired(n)
         /\ checkpoint.tensors[n].nd /\ checkpoint.tensors[BName(n)].nd
         /\ ~MatMulOk(checkpoint.tensors[n], checkpoint.tensors[BName(n)]) )
  => (error = "ShapeMismatchError" /\ ~outFile.exists)

\* C4: a run whose checkpoint has a pair for a layer the base container has
\* no tensor for ends with TargetNotFoundError and without a destination file
\* (runs ended by an I/O failure aside).
C4_TargetMissingFails ==
  ( /\ tool = "advanced" /\ Terminal /\ error # "IOError"
    /\ checkpoint.loadable
    /\ baseTensors # <<>>
    /\ \E n \in DOMAIN checkpoint.tensors :
         Paired(n) /\ \A i \in 1..Len(baseTensors) : ~TargetIs(n, i) )
  => (error = "TargetNotFoundError" /\ ~outFile.exists)

\* C5: when the checkpoint has a lora_A name without its lora_B, the merge
\* does not fail, the report has an entry for that layer (as skipped), and
\* every layer with both A and B has its entry too.
C5_UnpairedSkippedOthersMerged ==
  ( /\ tool = "advanced" /\ checkpoint.loadable
    /\ \E n \in DOMAIN checkpoint.tensors : Unpaired(n) )
  => /\ error \in {"none", "IOError"}
     /\ pc \in {"save", "meta", "done"} =>
          \A n \in DOMAIN checkpoint.tensors :
            /\ Unpaired(n) => Reported(LastPart(n))
            /\ Paired(n) => Reported(LastPart(n))

\* C6: a run whose base model file does not start with the magic never
\* creates the destination or the merge report, and does not complete.
C6_BadMagicAbortsBeforeWrite ==
  ( /\ modelFile.exists
    /\ Read(modelFile.data, 0, 4) # Magic
    /\ error # "IOError" )
  => (~outFile.exists /\ ~reportFile.exists /\ pc # "done")

\* C7: after a write that failed part way, the destination is absent or does
\* not pass for a container (its header cannot be read).
C7_NoValidLookingPartialOutput ==
  ( /\ pc = "failed" /\ error = "IOError"
    /\ outFile.exists
    /\ Len(outFile.data) > 0
    /\ Len(outFile.data) < Len(modelFile.data) )
  => read_gguf_header(outFile.data).err # "none"

\* The text the checkpoint reader takes for the header: from the first "{"
\* to the first "}" after it.
DelimitedText(file) ==
  LET start == Find(file, "{")
      rest == SubSeq(file, start + 1, Len(file))
  IN  DecodeIgnore(SubSeq(rest, 1, Find(rest, "}") + 1))

\* No metadata header can be parsed from the adapter: no "{", no closing
\* brace, or the delimited text is not valid JSON.
NoParsableHeader(file) ==
  \/ Find(file, "{") = -1
  \/ Find(SubSeq(file, Find(file, "{") + 1, Len(file)), "}") = -1
  \/ ~JsonLoads(DelimitedText(file)).ok

\* A DegradedParse warning came with the result or was printed.
DegradedParseWarned ==
  \/ "warning" \in DOMAIN adapter_data
  \/ \E i \in 1..Len(warnings) : warnings[i] = <<"DegradedParse">>

\* The fallback result: the entire input as tensor bytes, rank 8, alpha 16.
FallbackResult ==
  /\ adapter_data.tensors = adapterFile.data
  /\ adapter_data.metadata = DefaultMetadata

\* C8: for an adapter from which no header can be parsed, the checkpoint
\* reader does not fail and returns the entire input as tensor bytes with
\* rank 8 and alpha 16, together with a DegradedParse warning.
C8_FallbackWithWarning ==
  ( /\ tool = "simple" /\ pc # "start"
    /\ adapterFile.exists
    /\ NoParsableHeader(adapterFile.data) )
  => (pc # "failed" \/ error # "RuntimeError")
       /\ FallbackResult
       /\ DegradedParseWarned

\* Index of the "}" that closes the "{" at index i, by brace-depth counting
\* (0 when there is none).
RECURSIVE MatchingClose(_, _, _)
MatchingClose(toks, i, depth) ==
  IF i > Len(toks) THEN 0
  ELSE IF toks[i] = "{" THEN MatchingClose(toks, i + 1, depth + 1)
  ELSE IF toks[i] = "}"
    THEN IF depth = 1 THEN i ELSE MatchingClose(toks, i + 1, depth - 1)
  ELSE MatchingClose(toks, i + 1, depth)

\* C10: when the adapter embeds a header (the first "{" up to its matching
\* "}" is valid JSON), the tensor data are the bytes after that matching
\* brace, and only those.
C10_HeaderEndsAtMatchingBrace ==
  ( /\ tool = "simple" /\ pc # "start"
    /\ adapterFile.exists
    /\ Find(adapterFile.data, "{") >= 0 )
  => LET file == adapterFile.data
         open == Find(file, "{") + 1
         close == MatchingClose(file, open, 0)
     IN  (close > 0 /\ JsonLoads(DecodeIgnore(SubSeq(file, open, close))).ok)
           => adapter_data.tensors = SubSeq(file, close + 1, Len(file))

\* C9: whenever the metadata loop is about to decode an entry or has
\* finished, the cursor is at an entry boundary: h_i entries were consumed
\* and the cursor is at the first byte of the next one.
C9_CursorAtEntryBoundary ==
  (h_pc \in {"loop", "returned"} /\ h_bytes = EncodeContainer(3, h_kvs, <<>>)) =>
    (h_i <= Len(h_kvs) /\ h_pos = EntryBoundary(h_kvs, h_i))

\* One iteration of the metadata loop at cursor pos gets fewer bytes than it
\* asks for in one of its reads: the key length, the key, the type tag, the
\* uint32 value, the string length or the string.
ShortReadKV(bytes, pos) ==
  LET klRaw == Read(bytes, pos, 4)
      keyLen == LittleEndian(klRaw)
      keyRaw == Read(bytes, pos + 4, keyLen)
      p1 == pos + 4 + Len(keyRaw)
      vtRaw == Read(bytes, p1, 1)
      valRaw == Read(bytes, p1 + 1, 4)
      strLen == LittleEndian(valRaw)
      strRaw == Read(bytes, p1 + 5, strLen)
  IN  \/ Len(klRaw) # 4
      \/ Len(keyRaw) < keyLen
      \/ Len(vtRaw) # 1
      \/ /\ vtRaw[1] \in {0, 4}
         /\ \/ Len(valRaw) # 4
            \/ vtRaw[1] = 4 /\ Len(strRaw) < strLen

\* Some read of the first n iterations of the metadata loop, started at
\* cursor pos, comes up short.
RECURSIVE ShortReadIn(_, _, _)
ShortReadIn(bytes, pos, n) ==
  IF n = 0 THEN FALSE
  ELSE \/ ShortReadKV(bytes, pos)
       \/ /\ ReadKV(bytes, pos).err = "none"
          /\ ShortReadIn(bytes, ReadKV(bytes, pos).pos, n - 1)

\* The byte source ends before a length the reader asks for is satisfied:
\* the magic, the fixed header fields, or a read of the metadata loop.
EndsBeforeDeclaredLength(bytes) ==
  \/ Len(Read(bytes, 0, 4)) # 4
  \/ Len(Read(bytes, 4, 20)) # 20
  \/ ShortReadIn(bytes, 24, LittleEndian(Read(bytes, 16, 8)))

\* C11: when the byte source ends before a declared length is satisfied, the
\* container reader raises and returns nothing: it never returns a header
\* whose metadata was built from a short read.
C11_TruncatedSourceNeverReturns ==
  EndsBeforeDeclaredLength(h_bytes) => h_pc # "returned"
====
